---- MODULE Spec2Model ----
(***************************************************************************)
(* The streaming download pipeline of the YouTube-MP3 backend (index.js):  *)
(* GET /api/download/:id fetches the video's metadata with yt-dlp, checks  *)
(* the duration, derives a file name, flushes the response headers, spawns *)
(* yt-dlp (audio on stdout), feeds it to ffmpeg (fluent-ffmpeg) and pipes  *)
(* ffmpeg's output into the HTTP response.  Every action below is one      *)
(* callback of the Node.js event loop, run to completion.                  *)
(***************************************************************************)
EXTENDS Integers, Sequences, FiniteSets

VARIABLES ses, cfg, app

vars == <<ses, cfg, app>>

(* Bytes ffmpeg may write to its standard output in one session. *)
MaxBytes == 3

(* if (duration > 3600): the ceiling, in seconds. *)
MaxDurationSec == 3600

(* .substring(0, 60): the cap on the file name's stem. *)
MaxStem == 60

--------------------------------------------------------------------------
(* Titles are sequences of characters; a character is a one-element       *)
(* string, with TAB, LF and NBSP standing for U+0009, U+000A and U+00A0.  *)

Letters == {"a", "B", "d", "e", "g", "i", "m", "N", "n", "o", "p", "S", "u", "x"}
Digits == {"3", "7"}
Spaces == {" ", "TAB", "LF", "NBSP"}

(* \w of a JavaScript regular expression without the u flag. *)
IsWordChar(ch) == ch \in Letters \cup Digits \cup {"_"}

(* \s of a JavaScript regular expression: every white-space character. *)
IsSpaceChar(ch) == ch \in Spaces

(* The characters that /[^\w\s.-]/gi does not match, and so are kept. *)
Kept(ch) == IsWordChar(ch) \/ IsSpaceChar(ch) \/ ch \in {".", "-"}

(* String.prototype.replace(/[^\w\s.-]/gi, ''): drop every matched character. *)
Strip(str) == SelectSeq(str, Kept)

(* String.prototype.substring(0, n). *)
Substring0(str, n) == SubSeq(str, 1, IF Len(str) < n THEN Len(str) ELSE n)

Audio == <<"a", "u", "d", "i", "o">>

(* (meta.title || 'audio').replace(/[^\w\s.-]/gi, '').substring(0, 60);   *)
(* an absent title and the empty string are both falsy.                   *)
SafeTitle(title) == Substring0(Strip(IF title = <<>> THEN Audio ELSE title), MaxStem)

(* Durations are kept in milliseconds so that the fractional seconds that *)
(* yt-dlp may report are representable; Math.floor gives whole seconds.   *)
MathFloor(ms) == ms \div 1000

(* The comparison with the ceiling off by one. *)
TooLongOffByOne(duration) == duration > MaxDurationSec + 1

(* if (duration > 3600) *)
TooLong(duration) == duration > MaxDurationSec

--------------------------------------------------------------------------
(* The inputs: what yt-dlp prints for -j, as a sequence of JSON tokens.   *)

Pad(n, ch) == [i \in 1..n |-> ch]

SongTitle ==
    <<"S", "o", "n", "g", ":", " ", "B", "a", "d", "/", "N", "a", "m", "e", "?", ".", "m", "p", "3">>

Titles ==
    { <<>>, SongTitle, <<"a", "TAB", "B">>, <<"?", "/">>, <<"x", "_", "-", "7">>,
      Pad(MaxStem + 1, "x"),
      Pad(MaxStem - 1, "x") \o <<"?", "a", "NBSP", "B">> }

DurationsMs == {0, 215000, 3600000, 3600500, 3601000, 7200000}

LBrace == [t |-> "{", s |-> <<>>, n |-> 0]
RBrace == [t |-> "}", s |-> <<>>, n |-> 0]
Key(k) == [t |-> "key", s |-> <<k>>, n |-> 0]
Str(s) == [t |-> "string", s |-> s, n |-> 0]
Num(n) == [t |-> "number", s |-> <<>>, n |-> n]
NullTok == [t |-> "null", s |-> <<>>, n |-> 0]
Junk == [t |-> "junk", s |-> <<>>, n |-> 0]

TitleField(title) == <<Key("title"), Str(title)>>
DurationField(ms) == <<Key("duration"), Num(ms)>>

(* A well-formed info document; either field may be missing. *)
Doc(title, ms) ==
    <<LBrace>> \o (IF title = <<>> THEN <<>> ELSE TitleField(title))
               \o (IF ms = 0 THEN <<>> ELSE DurationField(ms)) \o <<RBrace>>

GoodTexts ==
    {Doc(title, 215000) : title \in Titles} \cup {Doc(SongTitle, ms) : ms \in DurationsMs}
        \cup {<<NullTok>>}

(* Output that is not JSON: nothing, an error line, a truncated document. *)
MalformedTexts ==
    { <<>>, <<Junk>>, <<LBrace, Key("title")>>, <<LBrace>> \o DurationField(215000),
      Doc(SongTitle, 215000) \o <<Junk>> }

Texts == GoodTexts \cup MalformedTexts

(* JavaScript values: an object with the two fields the handler reads     *)
(* (an absent title reads as '', an absent duration as 0: both falsy),    *)
(* null, and an Error.                                                    *)
Object(title, ms) == [kind |-> "object", title |-> title, ms |-> ms]
Null == [kind |-> "null", title |-> <<>>, ms |-> 0]
Error(why) == [kind |-> why, title |-> <<>>, ms |-> 0]

RECURSIVE ParseFields(_, _)
(* The members of an object, from the token after '{' to the closing '}'. *)
ParseFields(toks, obj) ==
    IF toks = <<>> THEN Error("SyntaxError")
    ELSE IF toks = <<RBrace>> THEN obj
    ELSE IF Len(toks) < 2 \/ toks[1].t # "key" THEN Error("SyntaxError")
    ELSE IF toks[1].s = <<"title">> /\ toks[2].t = "string"
        THEN ParseFields(SubSeq(toks, 3, Len(toks)), [obj EXCEPT !.title = toks[2].s])
    ELSE IF toks[1].s = <<"duration">> /\ toks[2].t = "number"
        THEN ParseFields(SubSeq(toks, 3, Len(toks)), [obj EXCEPT !.ms = toks[2].n])
    ELSE Error("SyntaxError")

(* JSON.parse: the value of a document, or a SyntaxError. *)
JSONparse(text) ==
    IF text = <<NullTok>> THEN Null
    ELSE IF text # <<>> /\ text[1].t = "{" THEN ParseFields(Tail(text), Object(<<>>, 0))
    ELSE Error("SyntaxError")

IsError(v) == v.kind \notin {"object", "null"}

Settled(v) == [ok |-> ~IsError(v), val |-> v]

(* A fetch that swallows the parse error and resolves with an empty object. *)
ParseAndSettleLenient(text) ==
    IF IsError(JSONparse(text)) THEN Settled(Object(<<>>, 0)) ELSE Settled(JSONparse(text))

(* try { resolve(JSON.parse(out)) } catch (parseErr) { reject(parseErr) } *)
ParseAndSettle(text) == Settled(JSONparse(text))

(* proc.on('close', code => ...) of ytDlpMetadata's direct-process path. *)
OnMetaClose(code, text) ==
    IF code # 0 THEN Settled(Error("ExitCode")) ELSE ParseAndSettle(text)

(* The yt-dlp-exec path: the wrapper's promise rejects, or fulfils with a *)
(* string (parsed here) or with an already parsed value.                  *)
WrapperOutcomes ==
    {[rejected |-> TRUE, isString |-> FALSE, text |-> <<>>]}
        \cup {[rejected |-> FALSE, isString |-> b, text |-> x] : b \in BOOLEAN, x \in GoodTexts}
        \cup {[rejected |-> FALSE, isString |-> TRUE, text |-> x] : x \in MalformedTexts}

OnWrapperSettled(o) ==
    IF o.rejected THEN Settled(Error("WrapperError"))
    ELSE IF o.isString THEN ParseAndSettle(o.text)
    ELSE Settled(JSONparse(o.text))

--------------------------------------------------------------------------
(* One download request (one invocation of the route handler).            *)

NewSession ==
    [ pc |-> "idle",            \* idle, awaitMeta, wired (handler returned, pipeline set up), done
      meta |-> "none",          \* the promise of ytDlpMetadata: none, pending, resolved, rejected
      metaProc |-> "none",      \* spawn('yt-dlp', ['-j', url]): none, spawnFailed, running, exited
      metaSpawnErr |-> FALSE,   \* the metadata process emitted 'error'
      badOutput |-> FALSE,      \* the metadata output handed to this request was not JSON
      rawMs |-> -1,             \* meta.duration as reported, in ms (-1: no metadata)
      filename |-> <<>>,        \* safeTitle
      headersSent |-> FALSE,    \* res.headersSent
      status |-> 0,             \* the status line sent (0: none yet)
      json |-> "none",          \* the JSON error body written: none, tooLong, downloadFailed, conversionFailed
      jsonAfterHeaders |-> FALSE, \* a JSON body was written when the headers had already been sent
      finished |-> FALSE,       \* res.finished: end() has been called
      resEndCalls |-> 0,        \* res.end() calls made by the handler's own callbacks
      sink |-> <<>>,            \* body bytes written to the response
      socketOpen |-> FALSE,
      aborted |-> FALSE,        \* req.aborted
      closeEmitted |-> FALSE,   \* req has emitted 'close'
      listener |-> FALSE,       \* req.on('close', ...) is registered
      yt |-> "null",            \* ytProc: null, spawnFailed, running, exited
      ytSignals |-> 0,          \* signals delivered to the running extractor
      ytWarned |-> FALSE,       \* the extractor's 'close' callback saw code !== 0
      ytSpawnErr |-> FALSE,     \* the extractor's 'error' callback ran
      ff |-> "none",            \* the ffmpeg process: none, pending, running, exited
      ffEvent |-> "none",       \* what the command emitted: none, end, error (one of them, once)
      ffSignals |-> 0,          \* signals delivered to the running ffmpeg
      ffBuf |-> <<>>,           \* ffmpeg's stdout, not yet piped
      produced |-> 0,           \* bytes ffmpeg has written to its stdout: 1, 2, .., produced
      pipeDone |-> FALSE,       \* the pipe saw the end of ffmpeg's stdout
      outputClosed |-> FALSE,   \* fluent-ffmpeg's 20 ms timer after the output stream closed
      caught |-> FALSE ]        \* the catch block ran

(* res.status(code).json(body): status line, headers and body, then end. *)
Json(c, code, body) ==
    [c EXCEPT !.status = IF c.headersSent THEN @ ELSE code,
              !.json = body,
              !.jsonAfterHeaders = @ \/ c.headersSent,
              !.headersSent = TRUE,
              !.finished = TRUE]

(* res.end() *)
End(c) == [c EXCEPT !.finished = TRUE, !.resEndCalls = @ + 1]

(* ytProc && ytProc.kill(): a signal is sent only while the child runs;   *)
(* on a child that has exited, or never started, kill() does nothing.     *)
KillYt(c) == IF c.yt = "running" THEN [c EXCEPT !.ytSignals = @ + 1] ELSE c

(* ffmpegProc && ffmpegProc.kill && ffmpegProc.kill('SIGKILL'): ffmpegProc *)
(* is what ff.pipe(res, ..) returned, and fluent-ffmpeg's pipe(stream)     *)
(* returns that stream, the response itself, which has no kill method:     *)
(* the guard is false and ffmpeg is not signalled.                         *)
KillFfmpegProc(c) == c

(* An error callback that does not look at res.headersSent. *)
FfErrorRespondAlwaysJson(c) == Json(c, 500, "conversionFailed")

(* if (!res.headersSent) res.status(500).json({error: 'Conversion failed'}) *)
(* else res.end()                                                          *)
FfErrorRespond(c) ==
    IF ~c.headersSent THEN Json(c, 500, "conversionFailed") ELSE End(c)

(* The transcoder's .on('error', ...) callback. *)
OnFfError(c) == FfErrorRespond(KillYt(c))

(* The catch block of the route handler. *)
Catch(c) ==
    LET k == [KillYt(c) EXCEPT !.caught = TRUE, !.pc = "done"]
    IN  IF ~k.headersSent THEN Json(k, 500, "downloadFailed") ELSE End(k)

(* The req.on('close', ...) callback. *)
OnReqClose(c) ==
    IF c.aborted \/ c.finished THEN KillFfmpegProc(KillYt(c)) ELSE c

(* A handler that carries on with whatever the fetch settled to. *)
ProceedsOnRejection(settled) == TRUE

(* const meta = await ytDlpMetadata(url): a rejection throws into catch. *)
Proceeds(settled) == settled.ok

(* child_process.spawn: the child runs, or the program is not on the PATH *)
(* ('error' is emitted later), or spawn itself throws.                    *)
SpawnOutcomes == {"ok", "enoent", "throws"}

(* A response object without flushHeaders: the optional call does nothing. *)
FlushHeadersAbsent(c) == c

(* res.setHeader(..) six times, then res.flushHeaders?.(): the status     *)
(* line (200) and the headers go out before anything is spawned.          *)
FlushHeaders(c) == [c EXCEPT !.headersSent = TRUE, !.status = 200]

(* The route handler from the resumption of the await to its return. *)
AfterMeta(c, settled, spawned) ==
    LET c1 == [c EXCEPT !.meta = IF settled.ok THEN "resolved" ELSE "rejected"]
    IN  IF ~Proceeds(settled) THEN Catch(c1)
        ELSE IF settled.val.kind = "null" THEN Catch(c1)
        ELSE LET c2 == [c1 EXCEPT !.rawMs = settled.val.ms]
             IN  IF TooLong(MathFloor(settled.val.ms))
                 THEN [Json(c2, 400, "tooLong") EXCEPT !.pc = "done"]
                 ELSE LET c3 == FlushHeaders([c2 EXCEPT !.filename = SafeTitle(settled.val.title)])
                      IN  IF spawned = "throws" THEN Catch(c3)
                          ELSE [c3 EXCEPT !.yt = IF spawned = "ok" THEN "running" ELSE "spawnFailed",
                                          !.ff = "pending",
                                          !.listener = TRUE,
                                          !.pc = "wired"]

(* A module-level ytProc shared by all requests: the callbacks of request *)
(* s reach the extractor of whichever other request is running one.       *)
HandleShared(s) ==
    IF \E t \in cfg.clients \ {s} : ses[t].yt = "running"
    THEN CHOOSE t \in cfg.clients \ {s} : ses[t].yt = "running"
    ELSE s

(* let ytProc = null; let ffmpegProc = null; inside the handler: the      *)
(* callbacks of request s hold the processes and the response of request  *)
(* s, whatever other requests are in flight.                              *)
Handle(s) == s

(* The state after a callback of request s that leaves it as c: a signal  *)
(* the callback sent is delivered to the extractor its ytProc refers to.  *)
Upd(s, c) ==
    /\ ses' = IF Handle(s) = s
              THEN [ses EXCEPT ![s] = c]
              ELSE [ses EXCEPT ![s] = [c EXCEPT !.ytSignals = ses[s].ytSignals],
                               ![Handle(s)] = [@ EXCEPT !.ytSignals =
                                                  @ + c.ytSignals - ses[s].ytSignals]]
    /\ UNCHANGED <<cfg, app>>

(* app.get('/api/download/:id'): the handler runs up to the await; without *)
(* the wrapper ytDlpMetadata spawns yt-dlp -j.                            *)
Request(s) ==
    /\ s \in cfg.clients
    /\ ses[s].pc = "idle"
    /\ \E started \in {"running", "spawnFailed"} :
          Upd(s, [ses[s] EXCEPT !.pc = "awaitMeta",
                                !.meta = "pending",
                                !.socketOpen = TRUE,
                                !.metaProc = IF cfg.wrapper THEN "none" ELSE started])

(* proc.on('error'): reject(new Error('yt-dlp not found on PATH')); the   *)
(* 'close' that follows rejects a promise that is already settled.        *)
MetaSpawnError(s) ==
    /\ ses[s].metaProc = "spawnFailed"
    /\ Upd(s, AfterMeta([ses[s] EXCEPT !.metaProc = "exited", !.metaSpawnErr = TRUE],
                        Settled(Error("NotFound")), "ok"))

(* proc.on('close') with the exit code and the buffered stdout. *)
MetaClose(s) ==
    /\ ses[s].metaProc = "running"
    /\ \E code \in {0, 1}, text \in cfg.texts, spawned \in SpawnOutcomes :
          Upd(s, AfterMeta([ses[s] EXCEPT !.metaProc = "exited",
                                          !.badOutput = text \in MalformedTexts],
                           OnMetaClose(code, text), spawned))

(* The wrapper's promise settles. *)
MetaWrapper(s) ==
    /\ cfg.wrapper
    /\ ses[s].meta = "pending"
    /\ \E o \in WrapperOutcomes, spawned \in SpawnOutcomes :
          /\ o.rejected \/ o.text \in cfg.texts
          /\ Upd(s, AfterMeta([ses[s] EXCEPT !.badOutput = ~o.rejected /\ o.text \in MalformedTexts],
                           OnWrapperSettled(o), spawned))

(* The client goes away before the response is finished: the socket       *)
(* closes, req.aborted is set and req emits 'close'.  fluent-ffmpeg       *)
(* listens for 'close' on the output stream once ffmpeg runs.             *)
ClientDisconnect(s) ==
    /\ ses[s].pc \in {"awaitMeta", "wired"}
    /\ ses[s].socketOpen
    /\ ~ses[s].finished
    /\ LET c1 == [ses[s] EXCEPT !.socketOpen = FALSE,
                                !.aborted = TRUE,
                                !.closeEmitted = TRUE,
                                !.outputClosed = ses[s].ff = "running"]
       IN  Upd(s, IF c1.listener THEN OnReqClose(c1) ELSE c1)

(* The request's 'close' once the response has been finished. *)
ReqCloseAfterFinish(s) ==
    /\ ses[s].listener
    /\ ses[s].finished
    /\ ses[s].socketOpen
    /\ ~ses[s].closeEmitted
    /\ Upd(s, OnReqClose([ses[s] EXCEPT !.socketOpen = FALSE, !.closeEmitted = TRUE]))

(* The extractor's 'error' (spawn ENOENT) and the 'close' after it: both  *)
(* callbacks only log.  Its stdout ends.                                  *)
YtSpawnError(s) ==
    /\ ses[s].yt = "spawnFailed"
    /\ Upd(s, [ses[s] EXCEPT !.yt = "exited", !.ytSpawnErr = TRUE, !.ytWarned = TRUE])

(* The extractor exits: 0, non-zero (1), or killed by a signal (-1, code  *)
(* null).  ytProc.on('close'): logs when code !== 0.                      *)
YtExit(s) ==
    /\ ses[s].yt = "running"
    /\ \E code \in {0, 1, -1} :
          /\ code = -1 => ses[s].ytSignals > 0
          /\ Upd(s, [ses[s] EXCEPT !.yt = "exited", !.ytWarned = code # 0])

(* fluent-ffmpeg spawns ffmpeg. *)
FfStart(s) ==
    /\ ses[s].ff = "pending"
    /\ Upd(s, [ses[s] EXCEPT !.ff = "running"])

(* ffmpeg writes the next byte to its stdout. *)
FfProduce(s) ==
    /\ ses[s].ff = "running"
    /\ ses[s].produced < cfg.bytes[s]
    /\ Upd(s, [ses[s] EXCEPT !.produced = @ + 1, !.ffBuf = Append(@, ses[s].produced + 1)])

(* ffmpeg reaches the end of its input and exits 0: 'end' (logs only). *)
FfEnd(s) ==
    /\ ses[s].ff = "running"
    /\ ses[s].yt = "exited"
    /\ Upd(s, [ses[s] EXCEPT !.ff = "exited",
                             !.ffEvent = IF @ = "none" THEN "end" ELSE @])

(* ffmpeg cannot be started, fails, or dies of a signal: 'error', unless  *)
(* the command has already emitted 'end' or 'error'.                      *)
FfFail(s) ==
    /\ ses[s].ff \in {"pending", "running"}
    /\ LET c1 == [ses[s] EXCEPT !.ff = "exited"]
       IN  Upd(s, IF c1.ffEvent = "none" THEN OnFfError([c1 EXCEPT !.ffEvent = "error"]) ELSE c1)

(* fluent-ffmpeg, 20 ms after the output stream closed: it reports        *)
(* 'Output stream closed' as an error and kills ffmpeg.                   *)
LibOutputClosed(s) ==
    /\ ses[s].outputClosed
    /\ LET c1 == [ses[s] EXCEPT !.outputClosed = FALSE,
                                !.ffSignals = IF ses[s].ff = "running" THEN @ + 1 ELSE @]
       IN  Upd(s, IF c1.ffEvent = "none" THEN OnFfError([c1 EXCEPT !.ffEvent = "error"]) ELSE c1)

Writable(c) == c.socketOpen /\ ~c.finished

(* A write that loses the first byte of each chunk. *)
PipeWriteLossy(sink, chunk) == sink \o Tail(chunk)

(* dest.write(chunk) of the pipe *)
PipeWrite(sink, chunk) == sink \o chunk

(* ff.pipe(res, {end: true}): a chunk of ffmpeg's stdout is written to    *)
(* the response; a response that is ended or destroyed drops it.          *)
PipeChunk(s) ==
    /\ ses[s].ffBuf # <<>>
    /\ \E n \in 1..Len(ses[s].ffBuf) :
          LET buf == ses[s].ffBuf
          IN  Upd(s, IF Writable(ses[s])
                     THEN [ses[s] EXCEPT !.sink = PipeWrite(@, SubSeq(buf, 1, n)),
                                         !.ffBuf = SubSeq(buf, n + 1, Len(buf))]
                     ELSE [ses[s] EXCEPT !.ffBuf = <<>>])

(* The end of ffmpeg's stdout reaches the pipe, which ends the response. *)
PipeEnd(s) ==
    /\ ses[s].ff = "exited"
    /\ ses[s].ffBuf = <<>>
    /\ ~ses[s].pipeDone
    /\ Upd(s, [ses[s] EXCEPT !.pipeDone = TRUE, !.finished = TRUE])

(* ---------------------------------------------------------------- *)
(* The browser client: downloadMP3 of App.jsx.  app.error is the      *)
(* page's error banner; app.calls[v] is the latest downloadMP3(v, ..) *)
(* call: where it is suspended (pc), its abort timer, its controller, *)
(* the response it got, and the page state it owns.                   *)
(* ---------------------------------------------------------------- *)

(* The page before any click on a download button. *)
NewCall ==
    [pc |-> "idle", timer |-> "unset", aborted |-> FALSE, headers |-> FALSE,
     status |-> 0, thrown |-> "none", named |-> "none", downloading |-> FALSE,
     saved |-> FALSE, revoke |-> "unset"]

NewApp(videos) == [error |-> "none", calls |-> [v \in videos |-> NewCall]]

(* Statuses the server answers with, and what Content-Disposition holds:  *)
(* nothing the page may read, a file name, or one decodeURIComponent      *)
(* rejects.                                                               *)
Statuses == {200, 400, 500}
Dispositions == {"absent", "plain", "malformed"}

(* response.ok *)
Ok(status) == status \in 200..299

(* clearTimeout(timeoutId): cancels a pending timer, nothing otherwise. *)
ClearTimeout(d) == [d EXCEPT !.timer = IF @ = "armed" THEN "cleared" ELSE @]

(* A continuation that does not cancel the timer once fetch has resolved. *)
AfterFetchKeepsTimer(d) == [d EXCEPT !.headers = TRUE]

(* fetch resolved, so the response headers are in: clearTimeout(timeoutId). *)
AfterFetch(d) == ClearTimeout([d EXCEPT !.headers = TRUE])

(* finally { setDownloading(.. [videoId]: false) } *)
Finally(d) == [d EXCEPT !.pc = "done", !.downloading = FALSE]

(* catch (err) { clearTimeout(timeoutId); setError(..) } finally { .. }:   *)
(* the banner names a timeout for an AbortError, the error's message      *)
(* otherwise.                                                             *)
CatchErr(d, name, message) ==
    [call |-> Finally(ClearTimeout([d EXCEPT !.thrown = name])),
     error |-> IF name = "AbortError" THEN "timeout" ELSE message]

UpdCall(v, r) ==
    /\ app' = [error |-> r.error, calls |-> [app.calls EXCEPT ![v] = r.call]]
    /\ UNCHANGED <<ses, cfg>>

(* The download button of v, enabled while downloading[v] is not set:     *)
(* downloadMP3 up to its await fetch(..).                                 *)
Click(v) ==
    /\ ~app.calls[v].downloading
    /\ UpdCall(v, [error |-> "none",
                   call |-> [app.calls[v] EXCEPT
                               !.pc = "fetch", !.downloading = TRUE,
                               !.timer = "armed", !.aborted = FALSE,
                               !.headers = FALSE, !.status = 0,
                               !.thrown = "none", !.named = "none",
                               !.saved = FALSE]])

(* Five minutes after the click: () => controller.abort().  A pending     *)
(* fetch or body read rejects with an AbortError; the read of an error    *)
(* body has its rejection swallowed and the status is thrown instead.     *)
TimerFire(v) ==
    LET d == [app.calls[v] EXCEPT !.timer = "fired", !.aborted = TRUE]
    IN  /\ app.calls[v].timer = "armed"
        /\ UpdCall(v, CASE d.pc \in {"fetch", "blob"} -> CatchErr(d, "AbortError", "aborted")
                        [] d.pc = "errBody" -> CatchErr(d, "Error", "status")
                        [] OTHER -> [call |-> d, error |-> app.error])

(* The response headers arrive: the continuation of await fetch(..) down  *)
(* to the next await, or to the catch when the file name does not decode. *)
FetchResolve(v) ==
    /\ app.calls[v].pc = "fetch"
    /\ \E status \in Statuses, cd \in Dispositions :
          LET d == AfterFetch([app.calls[v] EXCEPT !.status = status])
          IN  UpdCall(v,
                IF ~Ok(status)
                THEN [call |-> [d EXCEPT !.pc = "errBody"], error |-> app.error]
                ELSE IF cd = "malformed"
                THEN CatchErr(d, "URIError", "malformed")
                ELSE [call |-> [d EXCEPT !.pc = "blob",
                                         !.named = IF cd = "plain" THEN "header"
                                                                   ELSE "title"],
                      error |-> app.error])

(* The request fails before any response: fetch rejects with a TypeError. *)
FetchReject(v) ==
    /\ app.calls[v].pc = "fetch"
    /\ UpdCall(v, CatchErr(app.calls[v], "TypeError", "network"))

(* response.json().catch(() => ({})) settles: the server's error text if  *)
(* the body held one, the status otherwise, is thrown.                    *)
ErrBodyDone(v) ==
    /\ app.calls[v].pc = "errBody"
    /\ \E message \in {"server", "status"} :
          UpdCall(v, CatchErr(app.calls[v], "Error", message))

(* response.blob() resolves: an empty blob is thrown as an error; any     *)
(* other is saved through a link, and a 100 ms timer is set to revoke its *)
(* object URL.                                                            *)
BlobResolve(v) ==
    /\ app.calls[v].pc = "blob"
    /\ \E size \in {0, 1} :
          UpdCall(v,
            IF size = 0
            THEN CatchErr(app.calls[v], "Error", "empty")
            ELSE [call |-> Finally([app.calls[v] EXCEPT !.saved = TRUE,
                                                        !.revoke = "armed"]),
                  error |-> app.error])

(* The connection fails during the body: response.blob() rejects. *)
BlobReject(v) ==
    /\ app.calls[v].pc = "blob"
    /\ UpdCall(v, CatchErr(app.calls[v], "TypeError", "network"))

(* () => window.URL.revokeObjectURL(url), 100 ms after the save. *)
RevokeFire(v) ==
    /\ app.calls[v].revoke = "armed"
    /\ UpdCall(v, [call |-> [app.calls[v] EXCEPT !.revoke = "fired"],
                   error |-> app.error])

(* The banner's close button: setError(''). *)
CloseError ==
    /\ app.error # "none"
    /\ app' = [app EXCEPT !.error = "none"]
    /\ UNCHANGED <<ses, cfg>>

(* At startup the wrapper is detected or not; one client sends a request. *)
(* cfg also holds what the run's environment may do: the documents yt-dlp *)
(* may print and the number of bytes ffmpeg may write for each client.    *)
Init ==
    /\ cfg \in [wrapper : BOOLEAN, clients : {{1}}, texts : {Texts},
                 bytes : {[s \in {1} |-> MaxBytes]}]
    /\ ses = [s \in cfg.clients |-> NewSession]
    /\ app = NewApp({})

(* Bytes ffmpeg may write for the first of two concurrent clients. *)
ConcurrentBytes == 1

(* Two clients send requests that the event loop interleaves; the second  *)
(* client's video is a short one, of a single byte of audio.              *)
InitConcurrent ==
    /\ cfg \in [wrapper : BOOLEAN, clients : {{1, 2}},
                 texts : {{Doc(SongTitle, 215000), <<Junk>>}}, bytes : {[s \in {1, 2} |-> IF s = 1 THEN ConcurrentBytes ELSE 1]}]
    /\ ses = [s \in cfg.clients |-> NewSession]
    /\ app = NewApp({})

Next ==
    \/ \E s \in cfg.clients : Request(s)
    \/ \E s \in cfg.clients : MetaSpawnError(s)
    \/ \E s \in cfg.clients : MetaClose(s)
    \/ \E s \in cfg.clients : MetaWrapper(s)
    \/ \E s \in cfg.clients : ClientDisconnect(s)
    \/ \E s \in cfg.clients : ReqCloseAfterFinish(s)
    \/ \E s \in cfg.clients : YtSpawnError(s)
    \/ \E s \in cfg.clients : YtExit(s)
    \/ \E s \in cfg.clients : FfStart(s)
    \/ \E s \in cfg.clients : FfProduce(s)
    \/ \E s \in cfg.clients : FfEnd(s)
    \/ \E s \in cfg.clients : FfFail(s)
    \/ \E s \in cfg.clients : LibOutputClosed(s)
    \/ \E s \in cfg.clients : PipeChunk(s)
    \/ \E s \in cfg.clients : PipeEnd(s)

Spec == Init /\ [][Next]_vars

SpecConcurrent == InitConcurrent /\ [][Next]_vars

(* Videos listed on the page. *)
Videos == {"a", "b"}

(* The page alone, its server left out: each fetch settles as some server *)
(* could make it settle.                                                  *)
InitClient ==
    /\ cfg = [wrapper |-> FALSE, clients |-> {}, texts |-> {}, bytes |-> <<>>]
    /\ ses = [s \in cfg.clients |-> NewSession]
    /\ app = NewApp(Videos)

NextClient ==
    \/ \E v \in DOMAIN app.calls : Click(v)
    \/ \E v \in DOMAIN app.calls : TimerFire(v)
    \/ \E v \in DOMAIN app.calls : FetchResolve(v)
    \/ \E v \in DOMAIN app.calls : FetchReject(v)
    \/ \E v \in DOMAIN app.calls : ErrBodyDone(v)
    \/ \E v \in DOMAIN app.calls : BlobResolve(v)
    \/ \E v \in DOMAIN app.calls : BlobReject(v)
    \/ \E v \in DOMAIN app.calls : RevokeFire(v)
    \/ CloseError

SpecClient == InitClient /\ [][NextClient]_vars

--------------------------------------------------------------------------
(* The states of the download session, read off the handler's state.      *)

(* The transcoder finished, the pipe delivered everything and ended the   *)
(* response, and the client was there to the end.                         *)
Completed(c) == c.ffEvent = "end" /\ c.pipeDone /\ c.finished /\ ~c.aborted

(* An error was surfaced: a 400 or 500 body, the catch block, or the      *)
(* transcoder's 'error' callback.                                         *)
Failed(c) == c.status \in {400, 500} \/ c.caught \/ c.ffEvent = "error"

(* The client closed the connection of a session that was streaming. *)
Cancelled(c) == c.pc = "wired" /\ c.aborted

Terminal(c) == Completed(c) \/ Failed(c) \/ Cancelled(c)

Streaming(c) == c.pc = "wired" /\ ~Terminal(c)

Ramp(n) == [i \in 1..n |-> i]

AllowList == Letters \cup Digits \cup {" ", ".", "_", "-"}

--------------------------------------------------------------------------
(* C1, as amended: when the whole seconds of the reported duration,       *)
(* floor(d), exceed 3600, the response is HTTP 400, no extractor and no   *)
(* transcoder is spawned and no audio byte is written; and a session that *)
(* has set up the pipeline has floor(d) <= 3600.                          *)
C1_TooLongRejected ==
    \A s \in cfg.clients :
        LET c == ses[s]
        IN  /\ (c.rawMs >= 0 /\ MathFloor(c.rawMs) > MaxDurationSec) =>
                  /\ c.status = 400 /\ c.json = "tooLong"
                  /\ c.yt = "null" /\ c.ff = "none"
                  /\ c.sink = <<>> /\ c.produced = 0
            /\ c.pc = "wired" => (c.rawMs >= 0 /\ MathFloor(c.rawMs) <= MaxDurationSec)

C1_Witness ==
    \E s \in cfg.clients :
        /\ MathFloor(ses[s].rawMs) > MaxDurationSec
        /\ ses[s].status = 400
        /\ ses[s].pc = "done"

(* C1 as stated: every reported duration d > 3600 s is answered with 400  *)
(* and spawns nothing.                                                    *)
C1_Original ==
    \A s \in cfg.clients :
        LET c == ses[s]
        IN  c.rawMs > MaxDurationSec * 1000 =>
                /\ c.status = 400
                /\ c.yt = "null" /\ c.ff = "none"
                /\ c.sink = <<>>

(* C2: in the step in which the client disconnects from a streaming       *)
(* session, the running extractor and the running transcoder are both     *)
(* signalled, and after the disconnect no byte is added to the response.  *)
C2_Original ==
    [][\A s \in cfg.clients :
          LET c == ses[s]
              d == ses'[s]
          IN  /\ (Streaming(c) /\ d.aborted) =>
                    /\ c.yt = "running" => d.ytSignals > c.ytSignals
                    /\ c.ff = "running" => d.ffSignals > c.ffSignals
              /\ c.aborted => d.sink = c.sink]_vars

(* C3: in the step in which a streaming session observes a stage's        *)
(* failure (the extractor does not start or exits non-zero without having *)
(* been signalled, or the transcoder reports an error), the session       *)
(* becomes Failed and no subprocess is left running without a signal.     *)
C3_Original ==
    [][\A s \in cfg.clients :
          LET c == ses[s]
              d == ses'[s]
          IN  (/\ Streaming(c)
               /\ \/ ~c.ytWarned /\ d.ytWarned /\ c.ytSignals = 0
                  \/ c.ffEvent = "none" /\ d.ffEvent = "error") =>
                  /\ Failed(d)
                  /\ d.yt = "running" => d.ytSignals > 0
                  /\ d.ff = "running" => d.ffSignals > 0]_vars

(* C4: a session is in at most one of Completed, Failed and Cancelled,    *)
(* and once it is terminal no step signals the extractor again, calls     *)
(* res.end() again or writes to the response.                             *)
C4_Original ==
    [][\A s \in cfg.clients :
          LET c == ses[s]
              d == ses'[s]
          IN  /\ ~(Failed(d) /\ Cancelled(d))
              /\ ~(Completed(d) /\ Failed(d))
              /\ Terminal(c) =>
                    /\ d.ytSignals = c.ytSignals
                    /\ d.resEndCalls = c.resEndCalls
                    /\ d.sink = c.sink
                    /\ d.json = c.json]_vars

(* C5: no JSON body is ever written after the headers were sent, and a    *)
(* transcoder error is surfaced exactly one way and leaves the response   *)
(* ended: either the 500 'Conversion failed' body, or one res.end() and   *)
(* no JSON body.                                                          *)
C5_ErrorSurfacedOnce ==
    \A s \in cfg.clients :
        LET c == ses[s]
        IN  /\ ~c.jsonAfterHeaders
            /\ c.ffEvent = "error" =>
                  /\ c.finished
                  /\ \/ c.json = "conversionFailed" /\ c.status = 500 /\ c.resEndCalls = 0
                     \/ c.json = "none" /\ c.status = 200 /\ c.resEndCalls = 1

C5_Witness ==
    \E s \in cfg.clients :
        /\ ses[s].ffEvent = "error"
        /\ ses[s].headersSent /\ ses[s].finished
        /\ ses[s].json = "none" /\ ses[s].resEndCalls = 1

(* C6: once the extraction program could not be started, for the metadata *)
(* or for streaming, the client has been answered with HTTP 500.          *)
C6_Original ==
    \A s \in cfg.clients :
        (ses[s].metaSpawnErr \/ ses[s].ytSpawnErr) =>
            (ses[s].status = 500 /\ ses[s].json # "none")

(* C7: when the metadata output is not JSON, on either path, the fetch    *)
(* is rejected, the response is the HTTP 500 'Download failed' JSON body  *)
(* and neither the streaming extractor nor the transcoder is spawned.     *)
C7_MalformedMetadata ==
    \A s \in cfg.clients :
        LET c == ses[s]
        IN  c.badOutput =>
                /\ c.meta = "rejected"
                /\ c.status = 500 /\ c.json = "downloadFailed" /\ c.finished
                /\ c.yt = "null" /\ c.ff = "none"
                /\ c.pc = "done"

C7_Witness ==
    \E s \in cfg.clients :
        ses[s].badOutput /\ ses[s].meta = "rejected" /\ ses[s].status = 500

(* C8: when a session is Completed the bytes written to the response are  *)
(* exactly the bytes ffmpeg wrote to its stdout, in order.                *)
C8_BytesDelivered ==
    \A s \in cfg.clients :
        Completed(ses[s]) => ses[s].sink = Ramp(ses[s].produced)

C8_Witness ==
    \E s \in cfg.clients :
        Completed(ses[s]) /\ ses[s].produced >= 2 /\ ses[s].sink = Ramp(ses[s].produced)

(* C9: the derived stem has only characters of [A-Za-z0-9 ._-] and is at  *)
(* most 60 characters long.                                               *)
C9_Original ==
    \A s \in cfg.clients :
        LET c == ses[s]
        IN  c.headersSent =>
                /\ Len(c.filename) <= MaxStem
                /\ \A i \in 1..Len(c.filename) : c.filename[i] \in AllowList

(* C10: the streaming extractor or the transcoder exists only when the    *)
(* session's metadata fetch has resolved.                                 *)
C10_MetadataFirst ==
    \A s \in cfg.clients :
        (ses[s].yt # "null" \/ ses[s].ff # "none") => ses[s].meta = "resolved"

C10_Witness ==
    \E s \in cfg.clients :
        ses[s].yt = "running" /\ ses[s].ff = "running" /\ ses[s].meta = "resolved"

(* C12: after a client disconnect, also one that came while the metadata  *)
(* fetch was pending, the session has no extractor that runs without      *)
(* having been signalled, and no transcoder fed by such an extractor that *)
(* runs unsignalled with no kill by fluent-ffmpeg pending.                *)
C12_Original ==
    \A s \in cfg.clients :
        LET c == ses[s]
        IN  c.aborted =>
                /\ ~(c.yt = "running" /\ c.ytSignals = 0)
                /\ ~(/\ c.ff = "running" /\ c.ffSignals = 0 /\ ~c.outputClosed
                     /\ c.yt = "running" /\ c.ytSignals = 0)

(* C13: whenever the streaming extractor or the transcoder exists the     *)
(* headers have been sent with status 200 and no JSON body was written;   *)
(* the 'Conversion failed' body is never produced, and a transcoder error *)
(* is answered by one res.end().                                          *)
C13_HeadersBeforeSpawn ==
    \A s \in cfg.clients :
        LET c == ses[s]
        IN  /\ (c.yt # "null" \/ c.ff # "none") =>
                  (c.headersSent /\ c.status = 200 /\ c.json = "none")
            /\ c.json # "conversionFailed"
            /\ c.ffEvent = "error" => (c.finished /\ c.resEndCalls = 1)

C13_Witness ==
    \E s \in cfg.clients :
        /\ ses[s].ffEvent = "error"
        /\ ses[s].yt # "null"
        /\ ses[s].status = 200 /\ ses[s].finished /\ ses[s].resEndCalls = 1

(* C11: with two sessions interleaved, a step that changes one session    *)
(* (its failure, cancellation, completion or any other event) leaves the  *)
(* other session as it was: no signal reaches its subprocesses and its    *)
(* response is not written to or ended.                                   *)
C11_SessionsIsolated ==
    [][\A s \in cfg.clients : \A t \in cfg.clients \ {s} :
          ses'[s] # ses[s] =>
              /\ ses'[t].ytSignals = ses[t].ytSignals
              /\ ses'[t].ffSignals = ses[t].ffSignals
              /\ ses'[t].sink = ses[t].sink
              /\ ses'[t].finished = ses[t].finished
              /\ ses'[t].resEndCalls = ses[t].resEndCalls
              /\ ses'[t] = ses[t]]_vars

C11_Witness ==
    \E s \in cfg.clients : \E t \in cfg.clients \ {s} :
        /\ Cancelled(ses[s]) /\ ses[s].ytSignals > 0
        /\ Streaming(ses[t])
        /\ ses[t].yt = "running" /\ ses[t].ytSignals = 0
        /\ ses[t].ff = "running" /\ ses[t].ffSignals = 0

(* C14: in downloadMP3 the abort timer is never armed once the response   *)
(* headers are in, nor once the call has finished by any exit path; so a  *)
(* call that ended in the timeout abort had received no headers, and no   *)
(* call is aborted while its body is being read.                          *)
C14_AbortTimerCancelled ==
    \A v \in DOMAIN app.calls :
        LET d == app.calls[v]
        IN  /\ d.headers => d.timer # "armed"
            /\ d.pc \in {"idle", "done"} => d.timer # "armed"
            /\ d.pc \in {"errBody", "blob"} => (d.headers /\ ~d.aborted)
            /\ d.timer = "fired" => ~d.headers
            /\ d.thrown = "AbortError" => ~d.headers

C14_Witness ==
    \E v \in DOMAIN app.calls : \E w \in DOMAIN app.calls :
        /\ app.calls[v].pc = "blob" /\ app.calls[v].headers
        /\ app.calls[v].timer = "cleared"
        /\ app.calls[w].pc = "done" /\ app.calls[w].thrown = "AbortError"
        /\ app.calls[w].timer = "fired" /\ app.error = "timeout"

====
